---- MODULE Spec2Model ----
(***************************************************************************)
(* Model of the stock-predictor page.                                      *)
(*                                                                         *)
(*   src/js/predictor.js   the page of the worker variant (main thread)    *)
(*   src/unnamed/part_001  the training worker (js/trainWorker.js)         *)
(*   src/unnamed/part_000  the page of the synchronous variant             *)
(*                                                                         *)
(* Spec     is the worker variant: page, worker and the two message queues *)
(* FairSpec is Spec with the fairness of the browser's event loop          *)
(* SpecCSV  is parseCSV applied to one csv file                            *)
(* SpecWindow is prepareTrainingData applied to one series                 *)
(* SpecSync is initializeNetwork of the synchronous variant, FairSync with *)
(*          the fairness of the event loop                                  *)
(***************************************************************************)
EXTENDS Integers, Sequences, FiniteSets, TLC

VARIABLES
    currentStockData,   \* predictor.js:2   the current dataset, or Null
    workerState,        \* predictor.js:3   "null" before the load event; then the worker script's state
    net,                \* part_001:4       TRUE when the worker's network object exists
    toWorker,           \* messages posted by the page, not yet handled by the worker
    toMain,             \* messages posted by the worker, not yet handled by the page
    workerErrorPending, \* an error event of the worker waits for worker.onerror
    trainDisabled,      \* document.getElementById('trainButton').disabled
    overlay,            \* the .loading-overlay element and its #progress, #training-details, #error-display
    timers,             \* pending setTimeout(cleanup, 3000) callbacks, in the order they were set
    reading,            \* uploads suspended at `await file.text()`
    chartPending,       \* uploads suspended at `await updateChart()`
    lastUpload,         \* how the most recently parsed upload ended: "none", "ok", "failed"
    lastAlert,          \* the text of the last alert() shown
    nUploads,           \* uploads started
    lastJob,            \* the latest invocation that passed the check, and the series it was started with
    engineCall,         \* the engine's latest use: the job, its sequences, whether train and run were invoked, the iterations performed
    lastHandled,        \* the latest job message handled by worker.onmessage
    shown,              \* the prediction fields of the page, as updateUI last wrote them
    lastOutcome,        \* what the latest finished invocation emitted: predictions and error messages
    csvFile,            \* parseCSV's argument: the text of a CSV file, as its lines
    csvResult,          \* what parseCSV returned or threw for csvFile
    series,             \* prepareTrainingData's argument: the close of every point of a series
    trainingData,       \* what prepareTrainingData returned for series
    syncNet,            \* part_000:3      0 for null, else the number of the construction that made the object
    brain,              \* the engine library as the page sees it: "missing", "broken", "ready"
    syncStarted,        \* the script of the synchronous variant has run to its end
    syncLoaded,         \* the window's load event has been dispatched
    syncTimers,         \* pending setTimeout(initializeNetwork, 500) callbacks
    constructions,      \* constructions of the network object that succeeded
    initCalls           \* calls of initializeNetwork so far, counted up to MaxCalls

pageVars == << currentStockData, workerState, net, toWorker, toMain, workerErrorPending,
               trainDisabled, overlay, timers, reading, chartPending, lastUpload, lastAlert,
               nUploads, lastJob, engineCall, lastHandled, shown, lastOutcome >>

csvVars == << csvFile, csvResult >>

windowVars == << series, trainingData >>

syncVars == << syncNet, brain, syncStarted, syncLoaded, syncTimers, constructions, initCalls >>

\* What the page and the worker leave alone.
besidePage == << csvVars, windowVars, syncVars >>

vars == << pageVars, csvVars, windowVars, syncVars >>

----------------------------------------------------------------------------
(* Bounds of the model *)

MaxJobs == 2
MaxUploads == 2
MaxOddRows == 1
MaxExtraRows == 1
MaxSeriesLen == 100
MaxCalls == 16

(* Constants of the program *)

WindowLen == 5
Stride == 5
Iterations == 1000
LogPeriod == 10
ProgressEvery == 10
MinValidRows == 50
ScaleFactor == 138


----------------------------------------------------------------------------
(* Values *)

Null == [null |-> TRUE]

Dataset(n, c) == [len |-> n, lastClose |-> c]

NoOverlay == [present |-> FALSE, job |-> 0, progress |-> 0, iteration |-> 0, error |-> ""]

NewOverlay(j) == [present |-> TRUE, job |-> j, progress |-> 0, iteration |-> 0, error |-> ""]

NoJob == [id |-> 0, data |-> Null]

NoEngineCall == [job |-> 0, sequences |-> 0, train |-> FALSE, run |-> FALSE, iterations |-> 0]

NoMessage == [job |-> 0, type |-> "none", iteration |-> 0]

NoPrediction == [job |-> 0, close |-> 0, lastClose |-> 0, trend |-> ""]

NoOutcome == [job |-> 0, predictions |-> 0, errors |-> 0]

\* An uploaded file: its extension, whether its text is well formed (JSON.parse
\* succeeds; the CSV has its header), how many valid points it holds and the
\* close of its last point.
File(e, w, n, c) == [ext |-> e, wellFormed |-> w, rows |-> n, lastClose |-> c]

Files ==
    { File("csv", TRUE, 50, 138),
      File("csv", TRUE, 49, 138),
      File("json", TRUE, 3, 414),
      File("json", TRUE, 10, 414),
      File("json", FALSE, 0, 0),
      File("txt", TRUE, 0, 0) }

\* What the engine (brain.js, an external library) does with one train and run:
\* the iterations it performs before it stops, and whether train or run throws.
EngineOutcomes ==
    { [iters |-> Iterations, result |-> "ok", err |-> ""],
      [iters |-> 250, result |-> "ok", err |-> ""],
      [iters |-> 30, result |-> "trainThrows", err |-> "diverged"],
      [iters |-> 250, result |-> "runThrows", err |-> "diverged"] }

\* The normalized close the engine's run returns, in units of 1/ScaleFactor.
EngineCloses == {2}

----------------------------------------------------------------------------
(* Pure functions *)

\* parseCSV's acceptance floor, `if (data.length < 50) throw`.
CsvAccepted(validRows) == ~(validRows < MinValidRows)

\* handleFileUpload's try block: TRUE when no statement of it throws.
UploadParses(f) ==
    IF f.ext = "csv" THEN f.wellFormed /\ CsvAccepted(f.rows)
    ELSE IF f.ext = "json" THEN f.wellFormed
    ELSE FALSE

\* scaledData.slice(i, i + 5).length
SliceLen(i, len) == IF i + WindowLen <= len THEN WindowLen ELSE IF i < len THEN len - i ELSE 0

RECURSIVE WindowsToTheEnd(_, _)
\* A loop that also pushes the window ending at the last element.
WindowsToTheEnd(i, len) ==
    IF i <= len - WindowLen
    THEN (IF SliceLen(i, len) = WindowLen THEN << <<i, i + WindowLen>> >> ELSE << >>)
         \o WindowsToTheEnd(i + Stride, len)
    ELSE << >>

RECURSIVE Windows(_, _)
\* The loop of prepareTrainingData from index i: the windows [i, i+5) it pushes.
Windows(i, len) ==
    IF i < len - WindowLen
    THEN (IF SliceLen(i, len) = WindowLen THEN << <<i, i + WindowLen>> >> ELSE << >>)
         \o Windows(i + Stride, len)
    ELSE << >>

prepareTrainingData(data) == Windows(0, data.len)

\* scaleDown on the close of a point.
scaleDown(close) == close \div ScaleFactor

\* s.slice(i, j) of a JavaScript array, indices from 0.
Slice(s, i, j) == SubSeq(s, i + 1, IF j < Len(s) THEN j ELSE Len(s))

\* prepareTrainingData on the points themselves: data.map(scaleDown), then the
\* slices the loop pushes.
TrainingSequences(data) ==
    LET scaledData == [j \in 1..Len(data) |-> scaleDown(data[j])]
        pushed == Windows(0, Len(data)) IN
    [k \in 1..Len(pushed) |-> Slice(scaledData, pushed[k][1], pushed[k][2])]

\* Math.round((currentIteration / 1000) * 100)
Percent(currentIteration) == (2 * currentIteration * 100 + Iterations) \div (2 * Iterations)

scaleUp(close) == close * ScaleFactor

\* The log callback over the engine's calls 1..calls: each adds one to
\* currentIteration and posts 'progress' when that is a multiple of ten.
ProgressFrom(calls, j) ==
    LET Posted(m) == m.iteration % ProgressEvery = 0 IN
    SelectSeq([c \in 1..calls |->
                 [type |-> "progress", job |-> j, iteration |-> c, percent |-> Percent(c)]],
              Posted)

\* postMessage: the messages join the end of the receiver's queue.
Post(queue, msgs) == queue \o msgs

\* A worker that posts the terminal message ahead of the progress of its job.
TrainMessagesTerminalFirst(m, netReady, out, close) ==
    IF ~netReady
    THEN << [type |-> "error", job |-> m.job, message |-> "Neural network not initialized"] >>
    ELSE (IF out.result = "ok"
          THEN << [type |-> "complete", job |-> m.job, prediction |-> scaleUp(close)] >>
          ELSE << [type |-> "error", job |-> m.job, message |-> out.err] >>)
         \o ProgressFrom(out.iters \div LogPeriod, m.job)

\* The body of the worker's case 'train' for message m: the messages it posts.
TrainMessages(m, netReady, out, close) ==
    IF ~netReady
    THEN << [type |-> "error", job |-> m.job, message |-> "Neural network not initialized"] >>
    ELSE ProgressFrom(out.iters \div LogPeriod, m.job)
         \o (IF out.result = "ok"
             THEN << [type |-> "complete", job |-> m.job, prediction |-> scaleUp(close)] >>
             ELSE << [type |-> "error", job |-> m.job, message |-> out.err] >>)

\* What the worker's case 'train' asks of the engine for message m.
EngineUse(m, netReady, out) ==
    [job |-> m.job,
     sequences |-> IF netReady THEN Len(prepareTrainingData(m.data)) ELSE 0,
     train |-> netReady,
     run |-> netReady /\ out.result # "trainThrows",
     iterations |-> IF netReady THEN out.iters ELSE 0]

Handled(m) ==
    [job |-> m.job, type |-> m.type,
     iteration |-> IF m.type = "progress" THEN m.iteration ELSE 0]

----------------------------------------------------------------------------
(* parseCSV *)

\* A price field after parseFloat: a number, or NaN for text that is no number.
Price(v) == [nan |-> FALSE, v |-> v]
NotANumber == [nan |-> TRUE, v |-> 0]
\* parseFloat of "Infinity" or "1e999": Infinity, above every finite price.
Infinite == [nan |-> FALSE, v |-> 1000000]

\* A line of the file after the header. date is the day its date field names,
\* 0 when `new Date` cannot parse the field.
Row(b, n, d, o, h, l, c) ==
    [blank |-> b, cols |-> n, date |-> d, open |-> o, high |-> h, low |-> l, close |-> c]

ValidRow(d) == Row(FALSE, 5, d, Price(7), Price(10), Price(5), Price(8))

\* The lines that are not the well-formed line of their day: six the loop
\* refuses or passes over, a non-finite price, and a day that occurs twice.
OddKinds == {"blank", "columns", "date", "text", "zero", "relations", "infinite", "duplicate"}

OddRow(kind, d) ==
    CASE kind = "blank"     -> Row(TRUE, 0, 0, NotANumber, NotANumber, NotANumber, NotANumber)
      [] kind = "columns"   -> Row(FALSE, 4, d, Price(7), Price(10), Price(5), Price(8))
      [] kind = "date"      -> Row(FALSE, 5, 0, Price(7), Price(10), Price(5), Price(8))
      [] kind = "text"      -> Row(FALSE, 5, d, NotANumber, Price(10), Price(5), Price(8))
      [] kind = "zero"      -> Row(FALSE, 5, d, Price(7), Price(10), Price(0), Price(8))
      [] kind = "relations" -> Row(FALSE, 5, d, Price(7), Price(5), Price(10), Price(8))
      [] kind = "infinite"  -> Row(FALSE, 5, d, Price(7), Infinite, Price(5), Price(8))
      [] kind = "duplicate" -> ValidRow(IF d > 1 THEN d - 1 ELSE d + 1)

FullHeader == << "date", "open", "high", "low", "close" >>
ShortHeader == << "date", "open", "high", "low" >>

NoFile == [header |-> << >>, rows |-> << >>]
NoResult == [called |-> FALSE]

\* The lines of an n-line file that may be odd: its first two and its last two.
OddLines(n) == {1, 2, n - 1, n}

RECURSIVE Plans(_, _)
\* The ways to make at most k of the lines in `where` odd: sets of <<line, kind>>.
Plans(k, where) ==
    IF k = 0 THEN {{}}
    ELSE LET prev == Plans(k - 1, where) IN
         prev \cup UNION { { pl \cup {<<p, kd>>} :
                                p \in {q \in where : \A x \in pl : x[1] # q},
                                kd \in OddKinds } : pl \in prev }

\* The file of n lines dated in the given order, with the lines of plan pl odd.
MakeFile(n, order, pl) ==
    [header |-> FullHeader,
     rows |-> [i \in 1..n |->
                 LET d == IF order = "ascending" THEN i ELSE n + 1 - i IN
                 IF \E x \in pl : x[1] = i
                 THEN OddRow((CHOOSE x \in pl : x[1] = i)[2], d)
                 ELSE ValidRow(d)]]

\* The files parseCSV is applied to: around the floor of 50 valid rows, with at
\* most MaxOddRows odd lines; a header alone; a header short of a column.
CsvFiles ==
    UNION { { MakeFile(n, order, pl) :
                order \in {"ascending", "descending"},
                pl \in Plans(MaxOddRows, OddLines(n)) } :
            n \in (MinValidRows - 1)..(MinValidRows + MaxExtraRows) }
    \cup { [header |-> FullHeader, rows |-> << >>],
           [header |-> ShortHeader, rows |-> MakeFile(MinValidRows, "ascending", {}).rows] }

RECURSIVE Trim(_)
\* csv.trim(): the blank lines at the end of the text are gone.
Trim(rows) ==
    IF rows # << >> /\ rows[Len(rows)].blank THEN Trim(SubSeq(rows, 1, Len(rows) - 1))
    ELSE rows

RequiredColumns == {"date", "open", "high", "low", "close"}

HeaderOk(headers) == \A col \in RequiredColumns : \E i \in DOMAIN headers : headers[i] = col

InvalidValue(p) == p.nan \/ p.v <= 0

\* The checks of one line, in the loop's order: "" when the line is accepted or
\* blank, else the warning pushed to errorLines.
RowError(row, headers) ==
    IF row.blank THEN ""
    ELSE IF row.cols # Len(headers) THEN "Expected columns"
    ELSE IF row.date = 0 THEN "Invalid date format"
    ELSE IF \E p \in {row.open, row.high, row.low, row.close} : InvalidValue(p)
         THEN "Invalid OHLC values"
    ELSE IF \/ row.low.v > row.high.v \/ row.open.v > row.high.v \/ row.close.v > row.high.v
            \/ row.low.v > row.open.v \/ row.low.v > row.close.v
         THEN "Invalid OHLC relationships"
    ELSE ""

Point(row) ==
    [date |-> row.date, open |-> row.open.v, high |-> row.high.v,
     low |-> row.low.v, close |-> row.close.v]

\* Line k of the file is data line k - 1; the loop reads them in order.
Numbered(rows) == [k \in 1..Len(rows) |-> [line |-> k + 1, row |-> rows[k]]]

\* The loop over the data lines: a blank line is passed over, a line failing a
\* check is pushed to errorLines with its line number, any other to data.
Scan(rows, headers) ==
    LET Accepted(x) == ~x.row.blank /\ RowError(x.row, headers) = ""
        Refused(x) == ~x.row.blank /\ RowError(x.row, headers) # ""
        good == SelectSeq(Numbered(rows), Accepted)
        bad == SelectSeq(Numbered(rows), Refused) IN
    [data |-> [i \in 1..Len(good) |-> Point(good[i].row)],
     errorLines |-> [i \in 1..Len(bad) |->
                       [line |-> bad[i].line, text |-> RowError(bad[i].row, headers)]]]

\* The place of data[i] once sorted: after every earlier date, and after the
\* equal dates that came before it.
SortedPlace(data, i) ==
    Cardinality({j \in DOMAIN data : \/ data[j].date < data[i].date
                                     \/ data[j].date = data[i].date /\ j <= i})

\* data.sort((a, b) => new Date(a.date) - new Date(b.date)): stable, ascending.
SortByDate(data) ==
    LET place == [i \in DOMAIN data |-> SortedPlace(data, i)] IN
    [p \in 1..Len(data) |-> data[CHOOSE i \in DOMAIN data : place[i] = p]]

Thrown(kind, found, errorLines) ==
    [called |-> TRUE, ok |-> FALSE, error |-> kind, found |-> found,
     errorLines |-> errorLines, data |-> << >>]

parseCSV(file) ==
    LET rows == Trim(file.rows) IN
    IF 1 + Len(rows) < 2 THEN Thrown("MalformedFile", 0, << >>)
    ELSE IF ~HeaderOk(file.header) THEN Thrown("MissingColumns", 0, << >>)
    ELSE LET s == Scan(rows, file.header) IN
         IF ~CsvAccepted(Len(s.data))
         THEN Thrown("InsufficientData", Len(s.data), s.errorLines)
         ELSE [called |-> TRUE, ok |-> TRUE, error |-> "", found |-> Len(s.data),
               errorLines |-> s.errorLines, data |-> SortByDate(s.data)]

----------------------------------------------------------------------------
(* The page *)

\* cleanup(): the overlay is removed and the train button enabled.
cleanup ==
    /\ overlay' = NoOverlay
    /\ trainDisabled' = FALSE

\* The page as loaded, before the 'load' event. The train button starts disabled,
\* the state handleFileUpload's catch restores whenever there is no dataset.
PageInit ==
    /\ currentStockData = Null
    /\ workerState = "null"
    /\ net = FALSE
    /\ toWorker = << >>
    /\ toMain = << >>
    /\ workerErrorPending = FALSE
    /\ trainDisabled = TRUE
    /\ overlay = NoOverlay
    /\ timers = << >>
    /\ reading = {}
    /\ chartPending = 0
    /\ lastUpload = "none"
    /\ lastAlert = ""
    /\ nUploads = 0
    /\ lastJob = NoJob
    /\ engineCall = NoEngineCall
    /\ lastHandled = NoMessage
    /\ shown = NoPrediction
    /\ lastOutcome = NoOutcome

\* parseCSV and prepareTrainingData not called.
CsvIdle == csvFile = NoFile /\ csvResult = NoResult
WindowIdle == series = << >> /\ trainingData = NoResult

\* The synchronous variant before its script runs: net is null (part_000:3).
SyncIdle ==
    /\ syncNet = 0
    /\ brain = "missing"
    /\ syncStarted = FALSE
    /\ syncLoaded = FALSE
    /\ syncTimers = 0
    /\ constructions = 0
    /\ initCalls = 0

Init ==
    /\ PageInit
    /\ CsvIdle
    /\ WindowIdle
    /\ SyncIdle

\* window 'load': initializeWorker creates the worker and posts 'init'.
PageLoad ==
    /\ workerState = "null"
    /\ workerState' = "loading"
    /\ toWorker' = Post(toWorker, << [type |-> "init", job |-> 0] >>)
    /\ UNCHANGED << currentStockData, net, toMain, workerErrorPending, trainDisabled, overlay,
                    timers, reading, chartPending, lastUpload, lastAlert, nUploads, lastJob,
                    engineCall, lastHandled, shown, lastOutcome >>
    /\ UNCHANGED besidePage

\* The 'change' listener: handleFileUpload runs up to `await file.text()`.
FileChange(f) ==
    /\ nUploads < MaxUploads
    /\ f \notin reading
    /\ nUploads' = nUploads + 1
    /\ reading' = reading \cup {f}
    /\ UNCHANGED << currentStockData, workerState, net, toWorker, toMain, workerErrorPending,
                    trainDisabled, overlay, timers, chartPending, lastUpload, lastAlert,
                    lastJob, engineCall, lastHandled, shown, lastOutcome >>
    /\ UNCHANGED besidePage

\* handleFileUpload from the file's text to `await updateChart()`, or its catch.
UploadRead(f) ==
    /\ f \in reading
    /\ reading' = reading \ {f}
    /\ IF UploadParses(f)
       THEN /\ currentStockData' = Dataset(f.rows, f.lastClose)
            /\ chartPending' = chartPending + 1
            /\ lastUpload' = "ok"
            /\ UNCHANGED << trainDisabled, lastAlert >>
       ELSE /\ currentStockData' = Null
            /\ trainDisabled' = TRUE
            /\ lastUpload' = "failed"
            /\ lastAlert' = "Error processing file"
            /\ UNCHANGED chartPending
    /\ UNCHANGED << workerState, net, toWorker, toMain, workerErrorPending, overlay, timers,
                    nUploads, lastJob, engineCall, lastHandled, shown, lastOutcome >>
    /\ UNCHANGED besidePage

\* handleFileUpload after `await updateChart()`: the train button is enabled.
UploadChartDone ==
    /\ chartPending > 0
    /\ chartPending' = chartPending - 1
    /\ trainDisabled' = FALSE
    /\ UNCHANGED << currentStockData, workerState, net, toWorker, toMain, workerErrorPending,
                    overlay, timers, reading, lastUpload, lastAlert, nUploads, lastJob,
                    engineCall, lastHandled, shown, lastOutcome >>
    /\ UNCHANGED besidePage

\* trainAndPredict's precondition check: the one condition it returns early on.
TrainRejected == currentStockData = Null

\* A click on the train button (a disabled button dispatches no click): trainAndPredict.
TrainClick ==
    /\ ~trainDisabled
    /\ IF TrainRejected
       THEN /\ lastAlert' = "Please upload data first"
            /\ UNCHANGED << toWorker, trainDisabled, overlay, lastJob, lastOutcome >>
       ELSE /\ lastJob.id < MaxJobs
            /\ lastJob' = [id |-> lastJob.id + 1, data |-> currentStockData]
            /\ IF workerState = "null"
               THEN \* worker.postMessage throws on the null worker: the catch block
                    /\ cleanup
                    /\ lastAlert' = "Failed to start training. Please try again."
                    /\ lastOutcome' = [job |-> lastJob.id + 1, predictions |-> 0, errors |-> 1]
                    /\ UNCHANGED toWorker
               ELSE /\ overlay' = NewOverlay(lastJob.id + 1)
                    /\ trainDisabled' = TRUE
                    /\ toWorker' = Post(toWorker, << [type |-> "train", job |-> lastJob.id + 1,
                                                      data |-> currentStockData] >>)
                    /\ UNCHANGED << lastAlert, lastOutcome >>
    /\ UNCHANGED << currentStockData, workerState, net, toMain, workerErrorPending, timers,
                    reading, chartPending, lastUpload, nUploads, engineCall, lastHandled,
                    shown >>
    /\ UNCHANGED besidePage

\* worker.onmessage, case 'initialized'.
OnInitialized ==
    /\ toMain # << >> /\ Head(toMain).type = "initialized"
    /\ toMain' = Tail(toMain)
    /\ UNCHANGED << currentStockData, workerState, net, toWorker, workerErrorPending,
                    trainDisabled, overlay, timers, reading, chartPending, lastUpload, lastAlert,
                    nUploads, lastJob, engineCall, lastHandled, shown, lastOutcome >>
    /\ UNCHANGED besidePage

\* worker.onmessage, case 'progress'.
OnProgress ==
    /\ toMain # << >> /\ Head(toMain).type = "progress"
    /\ LET m == Head(toMain) IN
        /\ toMain' = Tail(toMain)
        /\ overlay' = IF overlay.present
                      THEN [overlay EXCEPT !.progress = m.percent, !.iteration = m.iteration]
                      ELSE overlay
        /\ lastHandled' = Handled(m)
    /\ UNCHANGED << currentStockData, workerState, net, toWorker, workerErrorPending,
                    trainDisabled, timers, reading, chartPending, lastUpload, lastAlert,
                    nUploads, lastJob, engineCall, shown, lastOutcome >>
    /\ UNCHANGED besidePage

\* updateUI reads currentStockData[currentStockData.length - 1].close: it throws
\* a TypeError when there is no dataset or the dataset has no point.
updateUIThrows == currentStockData = Null \/ currentStockData.len = 0

\* worker.onmessage, case 'complete': updateUI, updateChart, cleanup.
OnComplete ==
    /\ toMain # << >> /\ Head(toMain).type = "complete"
    /\ LET m == Head(toMain) IN
        /\ toMain' = Tail(toMain)
        /\ lastHandled' = Handled(m)
        /\ IF updateUIThrows
           THEN /\ lastOutcome' = [job |-> m.job, predictions |-> 0, errors |-> 0]
                /\ UNCHANGED << overlay, trainDisabled, shown >>
           ELSE /\ shown' = [job |-> m.job, close |-> m.prediction,
                             lastClose |-> currentStockData.lastClose,
                             trend |-> IF m.prediction > currentStockData.lastClose
                                       THEN "Up" ELSE "Down"]
                /\ lastOutcome' = [job |-> m.job, predictions |-> 1, errors |-> 0]
                /\ cleanup
    /\ UNCHANGED << currentStockData, workerState, net, toWorker, workerErrorPending, timers,
                    reading, chartPending, lastUpload, lastAlert, nUploads, lastJob,
                    engineCall >>
    /\ UNCHANGED besidePage

\* worker.onmessage, case 'error'.
OnError ==
    /\ toMain # << >> /\ Head(toMain).type = "error"
    /\ LET m == Head(toMain) IN
        /\ toMain' = Tail(toMain)
        /\ lastHandled' = Handled(m)
        /\ overlay' = IF overlay.present THEN [overlay EXCEPT !.error = m.message] ELSE overlay
        /\ lastOutcome' = [job |-> m.job, predictions |-> 0,
                           errors |-> IF overlay.present THEN 1 ELSE 0]
        /\ timers' = Append(timers, m.job)
    /\ UNCHANGED << currentStockData, workerState, net, toWorker, workerErrorPending,
                    trainDisabled, reading, chartPending, lastUpload, lastAlert, nUploads,
                    lastJob, engineCall, shown >>
    /\ UNCHANGED besidePage

\* worker.onerror.
OnWorkerError ==
    /\ workerErrorPending
    /\ workerErrorPending' = FALSE
    /\ lastAlert' = "An error occurred during training. Please try again."
    /\ cleanup
    /\ UNCHANGED << currentStockData, workerState, net, toWorker, toMain, timers, reading,
                    chartPending, lastUpload, nUploads, lastJob, engineCall, lastHandled,
                    shown, lastOutcome >>
    /\ UNCHANGED besidePage

\* A timer set by case 'error' fires: cleanup.
TimerFire ==
    /\ timers # << >>
    /\ timers' = Tail(timers)
    /\ cleanup
    /\ UNCHANGED << currentStockData, workerState, net, toWorker, toMain, workerErrorPending,
                    reading, chartPending, lastUpload, lastAlert, nUploads, lastJob,
                    engineCall, lastHandled, shown, lastOutcome >>
    /\ UNCHANGED besidePage

----------------------------------------------------------------------------
(* The worker *)

\* The worker script runs: importScripts succeeded and self.onmessage is set.
WorkerScriptLoaded ==
    /\ workerState = "loading"
    /\ workerState' = "ready"
    /\ UNCHANGED << currentStockData, net, toWorker, toMain, workerErrorPending, trainDisabled,
                    overlay, timers, reading, chartPending, lastUpload, lastAlert, nUploads,
                    lastJob, engineCall, lastHandled, shown, lastOutcome >>
    /\ UNCHANGED besidePage

\* importScripts throws: the script ends before self.onmessage is set, the page
\* gets an error event and no message is ever handled.
WorkerScriptFailed ==
    /\ workerState = "loading"
    /\ workerState' = "dead"
    /\ workerErrorPending' = TRUE
    /\ UNCHANGED << currentStockData, net, toWorker, toMain, trainDisabled, overlay, timers,
                    reading, chartPending, lastUpload, lastAlert, nUploads, lastJob,
                    engineCall, lastHandled, shown, lastOutcome >>
    /\ UNCHANGED besidePage

\* self.onmessage, case 'init': initializeNetwork, whose constructor may throw.
WorkerInit ==
    /\ workerState = "ready"
    /\ toWorker # << >> /\ Head(toWorker).type = "init"
    /\ \E ok \in BOOLEAN :
        /\ net' = ok
        /\ toMain' = Post(toMain, << [type |-> "initialized", job |-> 0, success |-> ok] >>)
    /\ toWorker' = Tail(toWorker)
    /\ UNCHANGED << currentStockData, workerState, workerErrorPending, trainDisabled, overlay,
                    timers, reading, chartPending, lastUpload, lastAlert, nUploads, lastJob,
                    engineCall, lastHandled, shown, lastOutcome >>
    /\ UNCHANGED besidePage

\* self.onmessage, case 'train'.
WorkerTrain ==
    /\ workerState = "ready"
    /\ toWorker # << >> /\ Head(toWorker).type = "train"
    /\ LET m == Head(toWorker) IN
       \E out \in EngineOutcomes, close \in EngineCloses :
        /\ toWorker' = Tail(toWorker)
        /\ toMain' = Post(toMain, TrainMessages(m, net, out, close))
        /\ engineCall' = EngineUse(m, net, out)
    /\ UNCHANGED << currentStockData, workerState, net, workerErrorPending, trainDisabled,
                    overlay, timers, reading, chartPending, lastUpload, lastAlert, nUploads,
                    lastJob, lastHandled, shown, lastOutcome >>
    /\ UNCHANGED besidePage

----------------------------------------------------------------------------

Next ==
    \/ PageLoad
    \/ \E f \in Files : FileChange(f)
    \/ \E f \in reading : UploadRead(f)
    \/ UploadChartDone
    \/ TrainClick
    \/ OnInitialized
    \/ OnProgress
    \/ OnComplete
    \/ OnError
    \/ OnWorkerError
    \/ TimerFire
    \/ WorkerScriptLoaded
    \/ WorkerScriptFailed
    \/ WorkerInit
    \/ WorkerTrain

Spec == Init /\ [][Next]_vars

\* The browser runs every queued task: a message, an error event, a timer, a
\* file read, the load event. The user's clicks and uploads are not owed.
Fairness ==
    /\ WF_vars(PageLoad)
    /\ WF_vars(\E f \in reading : UploadRead(f))
    /\ WF_vars(UploadChartDone)
    /\ WF_vars(OnInitialized)
    /\ WF_vars(OnProgress)
    /\ WF_vars(OnComplete)
    /\ WF_vars(OnError)
    /\ WF_vars(OnWorkerError)
    /\ WF_vars(TimerFire)
    /\ WF_vars(WorkerScriptLoaded \/ WorkerScriptFailed)
    /\ WF_vars(WorkerInit)
    /\ WF_vars(WorkerTrain)

FairSpec == Spec /\ Fairness

----------------------------------------------------------------------------
(* parseCSV applied to a file *)

InitCSV ==
    /\ PageInit
    /\ WindowIdle
    /\ SyncIdle
    /\ csvFile \in CsvFiles
    /\ csvResult = NoResult

CsvParse ==
    /\ csvResult = NoResult
    /\ csvResult' = parseCSV(csvFile)
    /\ UNCHANGED << csvFile, pageVars, windowVars, syncVars >>

NextCSV == CsvParse

SpecCSV == InitCSV /\ [][NextCSV]_vars

----------------------------------------------------------------------------
(* prepareTrainingData applied to a series *)

\* The series of n points whose j-th close is j times the scale factor, so that
\* every point is told from the others once scaled.
SeriesOf(n) == [j \in 1..n |-> j * ScaleFactor]

InitWindow ==
    /\ PageInit
    /\ CsvIdle
    /\ SyncIdle
    /\ series \in {SeriesOf(n) : n \in 0..MaxSeriesLen}
    /\ trainingData = NoResult

PrepareTrainingData ==
    /\ trainingData = NoResult
    /\ trainingData' = [called |-> TRUE, sequences |-> TrainingSequences(series)]
    /\ UNCHANGED << series, pageVars, csvVars, syncVars >>

NextWindow == PrepareTrainingData

SpecWindow == InitWindow /\ [][NextWindow]_vars

----------------------------------------------------------------------------
(* The synchronous variant: initializeNetwork *)

\* initializeNetwork without its first line: every call constructs anew.
initializeNetworkAnew(pending) ==
    /\ initCalls' = IF initCalls < MaxCalls THEN initCalls + 1 ELSE initCalls
    /\ IF brain = "missing"
       THEN /\ syncTimers' = pending + 1
            /\ UNCHANGED << syncNet, constructions >>
       ELSE IF brain = "ready"
       THEN /\ constructions' = constructions + 1
            /\ syncNet' = constructions + 1
            /\ syncTimers' = pending
       ELSE /\ syncTimers' = pending + 1
            /\ UNCHANGED << syncNet, constructions >>

\* One call of initializeNetwork, which runs to its end without interruption;
\* pending is the number of retry timers waiting when it is called.
initializeNetwork(pending) ==
    /\ initCalls' = IF initCalls < MaxCalls THEN initCalls + 1 ELSE initCalls
    /\ IF syncNet # 0
       THEN /\ syncTimers' = pending
            /\ UNCHANGED << syncNet, constructions >>
       ELSE IF brain = "missing"
       THEN /\ syncTimers' = pending + 1
            /\ UNCHANGED << syncNet, constructions >>
       ELSE IF brain = "ready"
       THEN /\ constructions' = constructions + 1
            /\ syncNet' = constructions + 1
            /\ syncTimers' = pending
       ELSE /\ syncTimers' = pending + 1
            /\ UNCHANGED << syncNet, constructions >>

\* The script runs: the immediate call, then the load listener is registered.
SyncScriptRun ==
    /\ ~syncStarted
    /\ syncStarted' = TRUE
    /\ initializeNetwork(syncTimers)
    /\ UNCHANGED << brain, syncLoaded >>
    /\ UNCHANGED << pageVars, csvVars, windowVars >>

\* The window's load event calls initializeNetwork.
SyncWindowLoad ==
    /\ syncStarted /\ ~syncLoaded
    /\ syncLoaded' = TRUE
    /\ initializeNetwork(syncTimers)
    /\ UNCHANGED << brain, syncStarted >>
    /\ UNCHANGED << pageVars, csvVars, windowVars >>

\* A retry timer fires after its 500 ms and calls initializeNetwork.
SyncRetryFire ==
    /\ syncTimers > 0
    /\ initializeNetwork(syncTimers - 1)
    /\ UNCHANGED << brain, syncStarted, syncLoaded >>
    /\ UNCHANGED << pageVars, csvVars, windowVars >>

\* The engine library's script is evaluated: `brain` is defined from now on, and
\* its constructor works or, the library being incomplete, throws.
BrainArrives ==
    /\ brain = "missing"
    /\ brain' \in {"broken", "ready"}
    /\ UNCHANGED << syncNet, syncStarted, syncLoaded, syncTimers, constructions, initCalls >>
    /\ UNCHANGED << pageVars, csvVars, windowVars >>

\* The library is complete: the constructor no longer throws.
BrainRepaired ==
    /\ brain = "broken"
    /\ brain' = "ready"
    /\ UNCHANGED << syncNet, syncStarted, syncLoaded, syncTimers, constructions, initCalls >>
    /\ UNCHANGED << pageVars, csvVars, windowVars >>

InitSync ==
    /\ PageInit
    /\ CsvIdle
    /\ WindowIdle
    /\ SyncIdle

NextSync ==
    \/ SyncScriptRun
    \/ SyncWindowLoad
    \/ SyncRetryFire
    \/ BrainArrives
    \/ BrainRepaired

SpecSync == InitSync /\ [][NextSync]_vars

\* The event loop runs the script, dispatches the load event and fires every
\* timer that is due.
FairnessSync ==
    /\ WF_vars(SyncScriptRun)
    /\ WF_vars(SyncWindowLoad)
    /\ WF_vars(SyncRetryFire)

FairSync == SpecSync /\ FairnessSync

----------------------------------------------------------------------------
(* Properties of the worker variant *)

\* Training invocations whose 'complete' or 'error' the page has not handled yet:
\* 'train' messages waiting for the worker, and terminal messages waiting for the page.
JobsRunning ==
    Cardinality({i \in DOMAIN toWorker : toWorker[i].type = "train"})
    + Cardinality({i \in DOMAIN toMain : toMain[i].type \in {"complete", "error"}})

\* The worker handled 'init' and its network constructor threw: net stays null.
InitFailed ==
    /\ workerState = "ready"
    /\ ~net
    /\ \A i \in DOMAIN toWorker : toWorker[i].type # "init"

\* C1: at most one training job is Running at any time; no second 'train' message
\* is posted while an earlier job's terminal message is still to be handled
\* (stated for a worker whose script loaded).
C1_AtMostOneJobRunning == workerState # "dead" => JobsRunning <= 1

\* C2: every training invocation that passed the precondition check and has ended
\* emitted exactly one outcome to the page: one prediction or one error message.
C2_ExactlyOneOutcome ==
    lastOutcome.job > 0 => lastOutcome.predictions + lastOutcome.errors = 1

\* C3: whenever the loading overlay is shown (a job is Running) and the worker's
\* script has loaded, the page later reaches Idle: the overlay removed and the
\* train button enabled.
C3_RunningLeadsToIdle ==
    []((overlay.present /\ workerState = "ready") => <>(~overlay.present /\ ~trainDisabled))

\* C4: while the most recent upload is a failed one, there is no dataset and the
\* train button is disabled (stated for a worker whose script loaded).
C4_DisabledAfterFailedUpload ==
    (lastUpload = "failed" /\ workerState # "dead") =>
        (currentStockData = Null /\ trainDisabled)

\* C5: while the delay timer of a job whose engine call (on at least one training
\* sequence) raised is pending, the
\* raised message is on display in the overlay, the start control is locked and
\* no prediction of that job is shown.
C5_FailedUntilItsTimerFires ==
    \A i \in DOMAIN timers :
        (engineCall.job = timers[i] /\ engineCall.train /\ engineCall.sequences > 0) =>
            /\ overlay.present
            /\ overlay.error = "diverged"
            /\ trainDisabled
            /\ shown.job # timers[i]

\* C6: the job messages the page handles come job after job, a job's progress
\* events in increasing iteration, and nothing of a job after its terminal event.
C6_ProgressInOrderBeforeTerminal ==
    [][lastHandled' # lastHandled =>
        \/ lastHandled'.job > lastHandled.job
        \/ /\ lastHandled'.job = lastHandled.job
           /\ lastHandled.type = "progress"
           /\ (lastHandled'.type = "progress" =>
                 lastHandled'.iteration > lastHandled.iteration)]_vars

\* A job's error was handled after its progress events for iterations 10 and 20.
C6_Witness ==
    /\ lastHandled.type = "error"
    /\ overlay.present
    /\ overlay.job = lastHandled.job
    /\ overlay.iteration = 20
    /\ overlay.error = "diverged"

\* C7: a training request made when the worker's network failed to initialize
\* does not transition to Running: no overlay, the button left alone, no 'train' posted.
C7_NotReadyNeverRuns ==
    [][(InitFailed /\ lastJob'.id # lastJob.id) =>
        (overlay' = overlay /\ trainDisabled' = trainDisabled /\ toWorker' = toWorker)]_vars

\* C8: no job is Running on a series of fewer than 5 points.
C8_NoRunOnShortSeries ==
    overlay.present => lastJob.data.len >= 5

\* C9: the engine's train and run are invoked only with at least one training sequence.
C9_NoEngineCallWithoutSequences ==
    (engineCall.train \/ engineCall.run) => engineCall.sequences > 0

\* The lines of the file that are well formed under its header, counted from
\* the way the file was written rather than by the parser's checks.
WellFormedLines(file) ==
    {k \in DOMAIN file.rows :
        Len(file.header) = 5 /\ \E d \in 1..Len(file.rows) : file.rows[k] = ValidRow(d)}

\* The file's line numbers of the lines that are neither blank nor well formed.
IllFormedLineNumbers(file) ==
    {k + 1 : k \in {i \in DOMAIN file.rows : ~file.rows[i].blank} \ WellFormedLines(file)}

\* C10: parseCSV succeeds exactly when the file has at least 50 valid rows; with
\* 49 it fails with InsufficientData carrying the count 49 and one warning for
\* every refused line; with exactly 50 it returns 50 points.
C10_FloorOfFiftyValidRows ==
    csvResult.called =>
        LET valid == Cardinality(WellFormedLines(csvFile)) IN
        /\ csvResult.ok <=> valid >= 50
        /\ valid = 49 =>
              /\ csvResult.error = "InsufficientData"
              /\ csvResult.found = 49
              /\ Len(csvResult.errorLines) = Cardinality(IllFormedLineNumbers(csvFile))
              /\ {csvResult.errorLines[i].line : i \in DOMAIN csvResult.errorLines}
                    = IllFormedLineNumbers(csvFile)
        /\ valid = 50 => csvResult.ok /\ Len(csvResult.data) = 50

\* The point a well-formed line of day d stands for.
WellFormedPoint(d) == [date |-> d, open |-> 7, high |-> 10, low |-> 5, close |-> 8]

\* C11: of a file with at least 50 valid rows among invalid ones parseCSV returns
\* exactly the valid rows, one point for each and none from any other line, and
\* records exactly one warning for every invalid line that is not blank.
C11_ExactlyTheValidRows ==
    (csvResult.called /\ Cardinality(WellFormedLines(csvFile)) >= 50) =>
        /\ csvResult.ok
        /\ Len(csvResult.data) = Cardinality(WellFormedLines(csvFile))
        /\ \A i \in DOMAIN csvResult.data :
              /\ csvResult.data[i] = WellFormedPoint(csvResult.data[i].date)
              /\ Cardinality({j \in DOMAIN csvResult.data :
                                 csvResult.data[j].date = csvResult.data[i].date})
                   = Cardinality({k \in WellFormedLines(csvFile) :
                                    csvFile.rows[k].date = csvResult.data[i].date})
        /\ Len(csvResult.errorLines) = Cardinality(IllFormedLineNumbers(csvFile))
        /\ {csvResult.errorLines[i].line : i \in DOMAIN csvResult.errorLines}
              = IllFormedLineNumbers(csvFile)

\* C12: every point parseCSV returns has open, high, low and close each a finite
\* number above 0 with low <= open <= high and low <= close <= high; a line with
\* low 10 and high 5 is skipped with the warning 'Invalid OHLC relationships'.
C12_OhlcInvariants ==
    (csvResult.called /\ csvResult.error \in {"", "InsufficientData"}) =>
        /\ \A i \in DOMAIN csvResult.data :
              LET p == csvResult.data[i] IN
              /\ \A x \in {p.open, p.high, p.low, p.close} : x > 0 /\ x < Infinite.v
              /\ p.low <= p.open /\ p.open <= p.high
              /\ p.low <= p.close /\ p.close <= p.high
        /\ \A k \in DOMAIN csvFile.rows :
              (~csvFile.rows[k].blank /\ csvFile.rows[k].cols = 5 /\ csvFile.rows[k].date > 0
               /\ csvFile.rows[k].low = Price(10) /\ csvFile.rows[k].high = Price(5)) =>
                  \E i \in DOMAIN csvResult.errorLines :
                      csvResult.errorLines[i] = [line |-> k + 1, text |-> "Invalid OHLC relationships"]

\* C13: whatever the order of the lines, the Series parseCSV returns is sorted
\* strictly ascending by date: each point's date is before the next point's.
C13_StrictlyAscendingDates ==
    (csvResult.called /\ csvResult.ok) =>
        \A i \in 1..(Len(csvResult.data) - 1) :
            csvResult.data[i].date < csvResult.data[i + 1].date

\* C16: while the worker trains, there is a progress message for every tenth
\* iteration the engine performs, carrying the number of iterations performed
\* so far and the percent round(100 * iteration / 1000), never above 100.
C16_ProgressEveryTenIterations ==
    [][(engineCall' # engineCall /\ engineCall'.train) =>
          LET posted == {toMain'[i] : i \in (Len(toMain) + 1)..Len(toMain')}
              progress == {m \in posted : m.type = "progress"} IN
          /\ \A n \in 1..engineCall'.iterations :
                n % 10 = 0 => \E m \in progress : m.iteration = n
          /\ \A m \in progress :
                /\ m.iteration <= engineCall'.iterations
                /\ m.percent = (200 * m.iteration + 1000) \div 2000
                /\ m.percent <= 100]_vars

\* C18: the cleanup a failed job set for 3 s later resets only that job: when it
\* fires while a later job, started after the failure was shown, is Running,
\* that job's overlay stays and the train button stays disabled.
C18_TimerResetsOnlyItsJob ==
    [][(/\ timers # << >> /\ timers' = Tail(timers)
        /\ overlay.present /\ overlay.job > Head(timers) /\ overlay.error = ""
        /\ ~(lastHandled.job = overlay.job /\ lastHandled.type \in {"complete", "error"}))
       => (overlay' = overlay /\ trainDisabled' = trainDisabled)]_vars

\* C19: the last-known values and the trend shown for a completed job are those
\* of the last point of the series that job's 'train' message carried, whatever
\* became of the current dataset in between.
C19_ShownAgainstTheJobsSeries ==
    (shown.job > 0 /\ shown.job = lastJob.id) =>
        /\ shown.lastClose = lastJob.data.lastClose
        /\ shown.trend = IF shown.close > lastJob.data.lastClose THEN "Up" ELSE "Down"

----------------------------------------------------------------------------
(* Properties of prepareTrainingData *)

\* C14: prepareTrainingData emits the window [i, i+5) for every i = 0, 5, 10, ...
\* with i + 5 <= length, the window that ends at the last element included: one
\* sequence for every full five points, so one for 5 points and two for 10.
C14_EveryFullWindowEmitted ==
    trainingData.called =>
        \A i \in 0..Len(series) :
            (i % 5 = 0 /\ i + 5 <= Len(series)) =>
                \E k \in DOMAIN trainingData.sequences :
                    trainingData.sequences[k] = [j \in 1..5 |-> i + j]

\* C15: every emitted sequence has exactly 5 elements, the k-th (from 0) being
\* the normalized elements at indices [5k, 5k+5) in order; a series of 100
\* points gives exactly 19 sequences.
C15_PositionalWindows ==
    trainingData.called =>
        /\ \A k \in DOMAIN trainingData.sequences :
              /\ Len(trainingData.sequences[k]) = 5
              /\ \A j \in 1..5 : trainingData.sequences[k][j] = 5 * (k - 1) + j
        /\ Len(series) = 100 => Len(trainingData.sequences) = 19

\* The windows of a series of 100 points have been emitted.
C15_Witness ==
    /\ trainingData.called
    /\ Len(series) = 100
    /\ Len(trainingData.sequences) = 19
    /\ trainingData.sequences[19] = << 91, 92, 93, 94, 95 >>

----------------------------------------------------------------------------
(* Properties of the synchronous variant *)

\* C17: whatever the order of the immediate call, the load call and the retry
\* timers, the network object is constructed at most once and, once net is not
\* null, it is never replaced; and once the library is there and its
\* constructor succeeds, net eventually is not null.
C17_InitializedOnce ==
    /\ [](constructions <= 1)
    /\ [][syncNet # 0 => syncNet' = syncNet]_vars
    /\ [](brain = "ready" => <>(syncNet # 0))

\* net was made by a retry timer, and initializeNetwork was called again after.
C17_Witness ==
    /\ syncNet = 1
    /\ syncStarted /\ syncLoaded
    /\ initCalls >= 4
    /\ syncTimers = 0

=============================================================================
